---------------------------- MODULE Spec2Model ----------------------------
(***************************************************************************)
(* A model of PotreeConverter::convert() and of the helpers it calls       *)
(* (verifyWorkDir, prepare, createPointReader, get_total_points_count,     *)
(* calculateAABB, get_transformation_helper) as one sequential process     *)
(* whose position is pc.  The output directory, the input files and the    *)
(* converter's configuration are the inputs, drawn in Init.  Paths are     *)
(* sequences of characters, so that the extension tests are computed on    *)
(* the characters as iEndsWith computes them.  convert() is modelled for   *)
(* the default empty pageName (generatePage is not called) and without the *)
(* pointAttributes bookkeeping of prepare(), which no step below reads.    *)
(* Init is the union of three families of runs: over the output directory, *)
(* store option and projection; over the source list, directory order and  *)
(* user bounds; over the content of the input files and the memory limit.  *)
(* PotreeWriter, the point readers and AABB are not part of the sources;   *)
(* they are modelled by what convert() passes to and reads from them.      *)
(*                                                                         *)
(* SpecCache is PointsCache used by two threads: every statement of        *)
(* emplace_points() and clear() is a step, the vector's array is kept      *)
(* apart from the PointBuffer objects its pointers own.  SpecUI is a       *)
(* TerminalUI from construction to destruction, what it writes to stdout   *)
(* read by a terminal cursor, with the render thread of                    *)
(* TerminalUIAsyncRenderer; SpecRender adds the fairness of that thread.   *)
(* Each specification leaves the variables of the others at their initial  *)
(* values.                                                                 *)
(***************************************************************************)
EXTENDS Integers, Sequences, FiniteSets, TLC

\* Longest list of sources a run is started with.
MaxSources == 2

\* Largest number of batches one input file holds.
MaxBatches == 2

\* constexpr auto PROCESS_COUNT = 1'000'000;
PROCESS_COUNT == 1000000

\* Batch sizes a reader may return from readPointBatch().
BatchSizes == {500000, 1500000}

\* Values of max_memory_usage_MiB, expressed in resident points.
MemoryLimits == {1000000, 2500000}

\* enum class StoreOption
StoreOptions == {"ABORT_IF_EXISTS", "OVERWRITE", "INCREMENTAL"}

-----------------------------------------------------------------------------
(* Generic helpers *)

Min2(a, b) == IF a <= b THEN a ELSE b

Max2(a, b) == IF a >= b THEN a ELSE b

RECURSIVE SumSeq(_)
SumSeq(s) == IF s = <<>> THEN 0 ELSE Head(s) + SumSeq(Tail(s))

RECURSIVE Concat(_)
Concat(ss) == IF ss = <<>> THEN <<>> ELSE Head(ss) \o Concat(Tail(ss))

\* All sequences over S of length at most n.
SeqsUpTo(S, n) == UNION {[1..k -> S] : k \in 0..n}

\* All orderings of the finite set S, as sequences without repetition.
Orderings(S) ==
  {s \in [1..Cardinality(S) -> S] : \A i, j \in DOMAIN s : i # j => s[i] # s[j]}

-----------------------------------------------------------------------------
(* The input file system: a fixed small world of paths *)

F_a == <<"a", ".", "l", "a", "s">>

F_b == <<"b", ".", "L", "A", "Z">>

F_n == <<"n", ".", "d", "a", "t">>

F_gone == <<"g", ".", "l", "a", "s">>

D1 == <<"d">>

D1_p == <<"d", "/", "p", ".", "P", "L", "Y">>

D1_q == <<"d", "/", "q", ".", "t", "x", "t">>

D2 == <<"e">>

D2_s == <<"e", "/", "s", ".", "l", "a", "s">>

D2_u == <<"e", "/", "u", ".", "d", "a", "t">>

\* Paths a user may name as a source.
NamablePaths == {F_a, F_b, F_n, F_gone, D1, D2}

Directories == {D1, D2, D2_s}

RegularFiles == {F_a, F_b, F_n, D1_p, D1_q, D2_u}

\* The entries directly inside a directory.
DirEntries(d) ==
  IF d = D1 THEN {D1_p, D1_q}
  ELSE IF d = D2 THEN {D2_s, D2_u}
  ELSE {}

\* fs::is_directory, fs::is_regular_file, fs::exists on an input path
is_directory(p) == p \in Directories

is_regular_file(p) == p \in RegularFiles

exists(p) == is_directory(p) \/ is_regular_file(p)

\* fs::path(p).filename(): the characters after the last '/'
RECURSIVE filename(_)
filename(p) ==
  IF \E i \in DOMAIN p : p[i] = "/" THEN filename(Tail(p)) ELSE p

-----------------------------------------------------------------------------
(* Extension tests *)

\* Lower-case form of a character of the world's paths.
Lower(c) ==
  CASE c = "A" -> "a"
    [] c = "L" -> "l"
    [] c = "P" -> "p"
    [] c = "S" -> "s"
    [] c = "Y" -> "y"
    [] c = "Z" -> "z"
    [] OTHER -> c

\* iEndsWith(str, suffix): case-insensitive test of the last characters.
iEndsWith(str, suffix) ==
  /\ Len(str) >= Len(suffix)
  /\ \A i \in 1..Len(suffix) :
       Lower(str[Len(str) - Len(suffix) + i]) = Lower(suffix[i])

Ext(a, b, c) == <<".", a, b, c>>

\* PotreeConverter::createPointReader: the reader built for a path, "NULL"
\* when no branch matches.
createPointReader(path) ==
  IF iEndsWith(path, Ext("l","a","s")) \/ iEndsWith(path, Ext("l","a","z"))
    THEN "LASPointReader"
  ELSE IF iEndsWith(path, Ext("p","t","x")) THEN "PTXPointReader"
  ELSE IF iEndsWith(path, Ext("p","l","y")) THEN "PlyPointReader"
  ELSE IF iEndsWith(path, Ext("x","y","z")) \/ iEndsWith(path, Ext("t","x","t"))
    THEN "XYZPointReader"
  ELSE IF iEndsWith(path, Ext("p","t","s")) THEN "XYZPointReader"
  ELSE IF iEndsWith(path, Ext("b","i","n")) THEN "BINPointReader"
  ELSE "NULL"

\* The extension filter prepare() applies to the files inside a directory.
DirectoryFilter(filepath) ==
  \/ iEndsWith(filepath, Ext("l","a","s")) \/ iEndsWith(filepath, Ext("l","a","z"))
  \/ iEndsWith(filepath, Ext("x","y","z")) \/ iEndsWith(filepath, Ext("p","t","s"))
  \/ iEndsWith(filepath, Ext("p","t","x")) \/ iEndsWith(filepath, Ext("p","l","y"))


-----------------------------------------------------------------------------
(* The output directory: whether it exists, and the set of the paths below  *)
(* it, each a sequence of path components                                   *)

NoDir == [exists |-> FALSE, entries |-> {}]

Dir(S) == [exists |-> TRUE, entries |-> S]

RootFile == <<"r.json">>

DataDir == <<"data">>

NodeFile == <<"data", "r.bin">>

OldDir == <<"old">>

OldRootFile == <<"old", "r.json">>

OutPaths == {RootFile, DataDir, NodeFile, OldDir, OldRootFile}

\* A directory's content is closed under parents.
ParentClosed(S) == \A p \in S : Len(p) > 1 => SubSeq(p, 1, Len(p) - 1) \in S

OutDirs == {NoDir} \cup {Dir(S) : S \in {T \in SUBSET OutPaths : ParentClosed(T)}}

\* The entries fs::directory_iterator{workDir} yields: those directly inside.
TopEntries(dir) == {p \in dir : Len(p) = 1}

IsPrefix(e, p) == Len(e) <= Len(p) /\ SubSeq(p, 1, Len(e)) = e

\* fs::remove_all(entry): the entry and everything below it.
remove_all(dir, entry) == {p \in dir : ~IsPrefix(entry, p)}

\* for (auto &entry : fs::directory_iterator{workDir}) fs::remove_all(entry);
RECURSIVE RemoveEntries(_, _)
RemoveEntries(dir, entries) ==
  IF entries = {} THEN dir
  ELSE LET e == CHOOSE x \in entries : TRUE
       IN RemoveEntries(remove_all(dir, e), entries \ {e})

\* A slip in verifyWorkDir: the directory is emptied before the r.json test.
verifyWorkDir_RemoveFirst(workDir, storeOption) ==
  IF workDir.exists
    THEN IF storeOption = "INCREMENTAL"
           THEN [threw |-> FALSE, dir |-> workDir]
           ELSE [threw |-> FALSE, dir |-> Dir(RemoveEntries(workDir.entries, TopEntries(workDir.entries)))]
    ELSE [threw |-> FALSE, dir |-> Dir({})]

\* A slip in verifyWorkDir: only the entries that have nothing below them are
\* removed (fs::remove instead of fs::remove_all).
verifyWorkDir_RemoveFlat(workDir, storeOption) ==
  IF workDir.exists
    THEN IF RootFile \in workDir.entries /\ storeOption = "ABORT_IF_EXISTS"
           THEN [threw |-> TRUE, dir |-> workDir]
         ELSE IF storeOption = "INCREMENTAL"
           THEN [threw |-> FALSE, dir |-> workDir]
         ELSE [threw |-> FALSE,
               dir |-> Dir({p \in workDir.entries :
                              \/ Len(p) > 1
                              \/ \E q \in workDir.entries : q # p /\ IsPrefix(p, q)})]
    ELSE [threw |-> FALSE, dir |-> Dir({})]

\* A slip in verifyWorkDir: r.json is looked for anywhere below workDir.
verifyWorkDir_AnyRootFile(workDir, storeOption) ==
  IF workDir.exists
    THEN IF /\ \E p \in workDir.entries : p[Len(p)] = "r.json"
            /\ storeOption = "ABORT_IF_EXISTS"
           THEN [threw |-> TRUE, dir |-> workDir]
         ELSE IF storeOption = "INCREMENTAL"
           THEN [threw |-> FALSE, dir |-> workDir]
         ELSE [threw |-> FALSE, dir |-> Dir(RemoveEntries(workDir.entries, TopEntries(workDir.entries)))]
    ELSE [threw |-> FALSE, dir |-> Dir({})]

\* verifyWorkDir(workDir, storeOption): whether it threw, and the directory
\* it leaves.
verifyWorkDir(workDir, storeOption) ==
  IF workDir.exists
    THEN IF RootFile \in workDir.entries /\ storeOption = "ABORT_IF_EXISTS"
           THEN [threw |-> TRUE, dir |-> workDir]
         ELSE IF storeOption = "INCREMENTAL"
           THEN [threw |-> FALSE, dir |-> workDir]
         ELSE [threw |-> FALSE, dir |-> Dir(RemoveEntries(workDir.entries, TopEntries(workDir.entries)))]
    ELSE [threw |-> FALSE, dir |-> Dir({})]

-----------------------------------------------------------------------------
(* prepare(): the expansion of the source list *)

\* The inner loop over fs::directory_iterator(pSource), which yields the
\* entries in the order `listing`.
RECURSIVE ExpandDirectory(_)
ExpandDirectory(listing) ==
  IF listing = <<>> THEN <<>>
  ELSE LET pDirectoryEntry == Head(listing)
       IN (IF is_regular_file(pDirectoryEntry) /\ DirectoryFilter(pDirectoryEntry)
             THEN <<pDirectoryEntry>>
             ELSE <<>>) \o ExpandDirectory(Tail(listing))

\* sourceFiles.erase(std::remove_if(..., !fs::exists(path)), ...)
RECURSIVE RemoveMissing(_)
RemoveMissing(files) ==
  IF files = <<>> THEN <<>>
  ELSE (IF exists(Head(files)) THEN <<Head(files)>> ELSE <<>>)
         \o RemoveMissing(Tail(files))

\* A slip in prepare(): the first source that cannot be opened ends the loop.
RECURSIVE SourceFiles_StopAtMissing(_, _)
SourceFiles_StopAtMissing(srcs, order) ==
  IF srcs = <<>> THEN <<>>
  ELSE LET source == Head(srcs)
       IN IF is_directory(source)
            THEN ExpandDirectory(order[source])
                   \o SourceFiles_StopAtMissing(Tail(srcs), order)
          ELSE IF is_regular_file(source)
            THEN <<source>> \o SourceFiles_StopAtMissing(Tail(srcs), order)
          ELSE <<>>

\* The loop `for (const auto &source : sources)` of prepare().
RECURSIVE CollectSourceFiles(_, _)
CollectSourceFiles(srcs, order) ==
  IF srcs = <<>> THEN <<>>
  ELSE LET source == Head(srcs)
           rest == CollectSourceFiles(Tail(srcs), order)
       IN IF is_directory(source) THEN ExpandDirectory(order[source]) \o rest
          ELSE IF is_regular_file(source) THEN <<source>> \o rest
          ELSE rest

\* The source list prepare() leaves in this->sources.
SourceFiles(srcs, order) == RemoveMissing(CollectSourceFiles(srcs, order))

-----------------------------------------------------------------------------
(* AABB: a pair of corners, each <<x, y, z>> *)

\* The coordinate magnitude a default-constructed AABB starts from.
Infinity == 1000000

Vec(x, y, z) == <<x, y, z>>

\* AABB(): an empty box, min above every coordinate and max below.
EmptyAABB ==
  [min |-> Vec(Infinity, Infinity, Infinity),
   max |-> Vec(-Infinity, -Infinity, -Infinity)]

\* AABB::update(point): grow the box to hold the point.
AABBUpdate(box, point) ==
  [min |-> [i \in 1..3 |-> Min2(box.min[i], point[i])],
   max |-> [i \in 1..3 |-> Max2(box.max[i], point[i])]]

Extent(box, i) == box.max[i] - box.min[i]

MaxExtent(box) == Max2(Extent(box, 1), Max2(Extent(box, 2), Extent(box, 3)))

\* AABB::makeCubic(): the smaller extents are expanded to the largest one,
\* centred.
makeCubic(box) ==
  LET newMin == [i \in 1..3 |-> box.min[i] - ((MaxExtent(box) - Extent(box, i)) \div 2)]
  IN [min |-> newMin, max |-> [i \in 1..3 |-> newMin[i] + MaxExtent(box)]]

\* reader->getAABB() of each readable input file.
SourceAABB(path) ==
  IF path = F_a THEN [min |-> Vec(0, 0, 0), max |-> Vec(8, 4, 2)]
  ELSE IF path = F_b THEN [min |-> Vec(-4, 2, 0), max |-> Vec(2, 6, 12)]
  ELSE [min |-> Vec(10, 10, 10), max |-> Vec(12, 12, 18)]

\* The values of aabbValues a run may be configured with: none, six values
\* (a user-supplied box) or a list of another length.
UserBounds == {<<>>, <<0, 0, 0, 2, 4, 8>>, <<0, 0, 0>>}

\* A slip in calculateAABB: only the minimum corner of each source is added.
RECURSIVE calculateAABB_MinOnly(_, _)
calculateAABB_MinOnly(srcs, values) ==
  IF Len(values) = 6
    THEN [min |-> Vec(values[1], values[2], values[3]),
          max |-> Vec(values[4], values[5], values[6])]
  ELSE IF srcs = <<>> THEN EmptyAABB
  ELSE AABBUpdate(calculateAABB_MinOnly(SubSeq(srcs, 1, Len(srcs) - 1), values),
                  SourceAABB(srcs[Len(srcs)]).min)

\* PotreeConverter::calculateAABB(): the user's box when six values are
\* given, otherwise the box that grows over the sources in order.
RECURSIVE calculateAABB(_, _)
calculateAABB(srcs, values) ==
  IF Len(values) = 6
    THEN [min |-> Vec(values[1], values[2], values[3]),
          max |-> Vec(values[4], values[5], values[6])]
  ELSE IF srcs = <<>> THEN EmptyAABB
  ELSE LET sourceAABB == SourceAABB(srcs[Len(srcs)])
           before == calculateAABB(SubSeq(srcs, 1, Len(srcs) - 1), values)
       IN AABBUpdate(AABBUpdate(before, sourceAABB.min), sourceAABB.max)

-----------------------------------------------------------------------------
(* get_transformation_helper *)

\* std::optional<std::string>
None == [has |-> FALSE]

Some(str) == [has |-> TRUE, val |-> str]

WGS84 == "+proj=longlat +datum=WGS84 +no_defs"

\* Values of sourceProjection a run may be configured with.
Projections ==
  {None, Some(WGS84), Some("+proj=longlat +datum=WGS84 +no_defs "),
   Some("+proj=utm +zone=32 +datum=WGS84"), Some("")}

\* Proj4Transform(sourceProjection): the transform, or the std::runtime_error
\* its constructor throws when the projection cannot be set up.
Proj4Transform(setupThrows) ==
  IF setupThrows THEN "std::runtime_error" ELSE "Proj4Transform"

\* A slip in get_transformation_helper: no try/catch around the set-up.
get_transformation_helper_NoCatch(sourceProjection, setupThrows) ==
  IF ~sourceProjection.has
    THEN [threw |-> FALSE, transform |-> "IdentityTransform"]
  ELSE IF sourceProjection.val = WGS84
    THEN [threw |-> FALSE, transform |-> "IdentityTransform"]
  ELSE IF Proj4Transform(setupThrows) = "std::runtime_error"
    THEN [threw |-> TRUE, transform |-> "none"]
  ELSE [threw |-> FALSE, transform |-> Proj4Transform(setupThrows)]

\* get_transformation_helper(sourceProjection): whether an exception leaves
\* it, and the transform it returns.  The catch clause handles the
\* std::runtime_error of the set-up and the function falls through to the
\* identity.
get_transformation_helper(sourceProjection, setupThrows) ==
  IF ~sourceProjection.has
    THEN [threw |-> FALSE, transform |-> "IdentityTransform"]
  ELSE IF sourceProjection.val = WGS84
    THEN [threw |-> FALSE, transform |-> "IdentityTransform"]
  ELSE IF Proj4Transform(setupThrows) = "std::runtime_error"
    THEN [threw |-> FALSE, transform |-> "IdentityTransform"]
  ELSE [threw |-> FALSE, transform |-> Proj4Transform(setupThrows)]

-----------------------------------------------------------------------------
(* PotreeWriter: the points it holds, counted *)

NoWriter == [constructed |-> FALSE]

\* PotreeWriter writer{workDir, aabb, ..., *transformation, max_memory_usage_MiB}
NewWriter(box, transform, limit) ==
  [constructed |-> TRUE, aabb |-> box, transformation |-> transform,
   maxMemory |-> limit, store |-> 0, processing |-> 0, busy |-> FALSE,
   resident |-> 0, flushed |-> 0, closed |-> FALSE]

\* writer.add(pointBatch): the batch is queued in the store.
WriterAdd(w, count) == [w EXCEPT !.store = @ + count]

\* writer.processStore(): the store is handed to the processing task.
WriterProcessStore(w) ==
  [w EXCEPT !.processing = @ + w.store, !.store = 0, !.busy = TRUE]

\* writer.waitUntilProcessed(): the processing task has ended, its points
\* are in the in-memory tree.
WriterWaitUntilProcessed(w) ==
  [w EXCEPT !.resident = @ + w.processing, !.processing = 0, !.busy = FALSE]

\* writer.needs_flush(): the points held in memory exceed the limit.
WriterNeedsFlush(w) == w.store + w.processing + w.resident > w.maxMemory

\* writer.flush(): everything queued is processed and written to disk.
WriterFlush(w) ==
  [w EXCEPT !.flushed = @ + w.store + w.processing + w.resident,
            !.store = 0, !.processing = 0, !.resident = 0, !.busy = FALSE]

\* writer.close()
WriterClose(w) == [w EXCEPT !.closed = TRUE]

-----------------------------------------------------------------------------
(* State *)

VARIABLES
  pc,                         \* position of convert()
  storeOption,                \* configuration: StoreOption
  outDir,                     \* the output directory workDir
  initialOutDir,              \* the output directory as the run found it
  created,                    \* the paths this run has written below workDir
  givenSources,               \* the sources the converter was constructed with
  sources,                    \* this->sources
  dirOrder,                   \* the order in which each directory lists its entries
  fileBatches,                \* the batches each readable input file holds
  maxMemory,                  \* configuration: max_memory_usage_MiB
  aabbValues,                 \* configuration: aabbValues
  sourceProjection,           \* configuration: sourceProjection
  projSetupThrows,            \* whether Proj4Transform's constructor throws
  transformation,             \* the transform get_transformation_helper returned
  totalPoints,                \* _ui_state total points
  aabb,                       \* the local aabb of convert()
  writer,                     \* the PotreeWriter
  srcIdx,                     \* index of the source being read
  batchesRead,                \* batches the current reader has returned
  pointBatch,                 \* size of the batch last read
  pointsProcessed,
  pointsSinceLastProcessing,
  mode,                       \* _ui_state current mode
  processedPoints,            \* _ui_state processed points
  modeLog,                    \* the modes set_current_mode() was called with, in order
  boundingBoxes,
  numPoints,
  sourceFilenames,
  calls,                      \* the calls made on the readers and the writer
  addedSinceProcessStore,     \* points passed to add() since the last processStore()
  queuedAtProcessStore,       \* that count at the last processStore()
  readersCreated              \* calls of createPointReader so far

config == <<storeOption, initialOutDir, givenSources, dirOrder, fileBatches,
            maxMemory, aabbValues, sourceProjection, projSetupThrows>>

ingest == <<srcIdx, batchesRead, pointBatch, pointsProcessed,
            pointsSinceLastProcessing, boundingBoxes, numPoints, sourceFilenames>>

ghost == <<addedSinceProcessStore, queuedAtProcessStore, readersCreated>>

ui == <<mode, modeLog, processedPoints, totalPoints>>

convertVars == <<pc, config, outDir, created, sources, transformation, aabb,
                 writer, ingest, ui, calls, ghost>>

\* PointsCache and the threads that use it
VARIABLES
  cache,                      \* PointsCache::_cache: the owning pointers, in order
  storage,                    \* the array the vector keeps its pointers in
  lock,                       \* PointsCache::_lock: the thread holding it, or Nobody
  heap,                       \* the live PointBuffer objects: address -> contents
  tpc,                        \* position of each thread
  arg,                        \* the points each thread passed to emplace_points()
  result,                     \* the reference each thread's call is about to return
  returned,                   \* the references returned since the last clear()
  callsLeft                   \* calls the threads may still start

cacheVars == <<cache, storage, lock, heap, tpc, arg, result, returned,
               callsLeft>>

\* TerminalUI, the terminal it writes to and TerminalUIAsyncRenderer
VARIABLES
  tty,                        \* util::terminal_is_tty()
  counters,                   \* number of progress counters of the ProgressReporter
  uiElements,                 \* TerminalUI::_ui_elements: the lines of the UI
  lastOut,                    \* what the last redraw() or ~TerminalUI() wrote to stdout
  cursor,                     \* the terminal's cursor: row and column
  frame,                      \* the last redraw(): the cursor row before it, the
                              \* progress counters it found, the lines it built
  mpc,                        \* position of the thread that owns the UI
  rpc,                        \* position of the render thread
  doRender,                   \* TerminalUIAsyncRenderer::_do_render
  printLock,                  \* util::print_lock(): the thread holding it
  redrawsSinceClear           \* redraw() calls the render thread began after _do_render = false

termVars == <<tty, counters, uiElements, lastOut, cursor, frame, mpc, rpc,
              doRender, printLock, redrawsSinceClear>>

vars == <<convertVars, cacheVars, termVars>>

\* What the steps of convert(), the calls on the cache and the steps of the
\* terminal UI leave alone.
notConvert == <<cacheVars, termVars>>
notCache == <<convertVars, termVars>>
notTerminal == <<convertVars, cacheVars>>

\* The input files a reader can be created for.
ReadableFiles == {f \in RegularFiles : createPointReader(f) # "NULL"}

DirOrders ==
  {[d \in {D1, D2} |-> IF d = D1 THEN o1 ELSE o2] :
     o1 \in Orderings(DirEntries(D1)), o2 \in Orderings(DirEntries(D2))}

DefaultDirOrder == [d \in {D1, D2} |-> IF d = D1 THEN <<D1_p, D1_q>> ELSE <<D2_s, D2_u>>]

DefaultBatches ==
  [f \in ReadableFiles |-> IF f = F_a THEN <<1500000, 500000>> ELSE <<500000>>]

-----------------------------------------------------------------------------
(* PointsCache *)

\* The calls the threads make in all.
MaxCalls == 4

\* The threads that share one PointsCache.
Threads == {1, 2}

\* std::mutex _lock when no thread holds it.
Nobody == 0

\* Where the allocator can place a PointBuffer.
Addresses == 1 .. MaxCalls

\* std::vector<std::unique_ptr<PointBuffer>> _cache after construction: no
\* element and no array.
EmptyStorage == [base |-> 0, capacity |-> 0]

\* The capacity a full vector grows to.
GrowCapacity(capacity) == IF capacity = 0 THEN 1 ELSE 2 * capacity

\* _cache.push_back(pointer): a full array is replaced by a larger one and the
\* pointers are moved into it; the objects they own stay where they are.
push_back(v, st, pointer) ==
  [cache |-> Append(v, pointer),
   storage |-> IF Len(v) = st.capacity
                 THEN [base |-> st.base + 1, capacity |-> GrowCapacity(st.capacity)]
                 ELSE st]

NoRef == [addr |-> 0, points |-> 0, base |-> 0, by |-> Nobody]

\* PointsCache(): an empty cache, an unlocked mutex, no call in progress.
CacheInit ==
  /\ cache = <<>>
  /\ storage = EmptyStorage
  /\ lock = Nobody
  /\ heap = [a \in {} |-> 0]
  /\ tpc = [t \in Threads |-> "idle"]
  /\ arg = [t \in Threads |-> 0]
  /\ result = [t \in Threads |-> NoRef]
  /\ returned = {}

\* A thread calls emplace_points(points); every call passes its own points.
CallEmplace(t) ==
  /\ tpc[t] = "idle"
  /\ callsLeft > 0
  /\ callsLeft' = callsLeft - 1
  /\ arg' = [arg EXCEPT ![t] = MaxCalls - callsLeft + 1]
  /\ tpc' = [tpc EXCEPT ![t] = "emplace_lock"]
  /\ UNCHANGED <<notCache, cache, storage, lock, heap, result, returned>>

\* emplace_points() that takes the mutex without waiting for it.
EmplaceLock_NoWait(t) ==
  /\ tpc[t] = "emplace_lock"
  /\ lock' = t
  /\ tpc' = [tpc EXCEPT ![t] = "emplace_push"]
  /\ UNCHANGED <<notCache, cache, storage, heap, arg, result, returned, callsLeft>>

\* std::lock_guard guard{ _lock } of emplace_points(): blocks until the mutex
\* is free.
EmplaceLock(t) ==
  /\ tpc[t] = "emplace_lock"
  /\ lock = Nobody
  /\ lock' = t
  /\ tpc' = [tpc EXCEPT ![t] = "emplace_push"]
  /\ UNCHANGED <<notCache, cache, storage, heap, arg, result, returned, callsLeft>>

\* emplace_points() with the PointBuffer objects kept in the vector's array
\* itself: growing the array moves them.
EmplacePushBack_ByValue(t) ==
  /\ tpc[t] = "emplace_push"
  /\ \E a \in Addresses \ DOMAIN heap :
       LET pushed == push_back(cache, storage, a)
           moved(x) == IF pushed.storage = storage THEN x ELSE x + MaxCalls
       IN /\ heap' = [x \in {moved(y) : y \in DOMAIN heap} \cup {a} |->
                        IF x = a THEN arg[t]
                        ELSE heap[CHOOSE y \in DOMAIN heap : moved(y) = x]]
          /\ cache' = [i \in DOMAIN pushed.cache |->
                         IF i = Len(pushed.cache) THEN a ELSE moved(cache[i])]
          /\ storage' = pushed.storage
  /\ tpc' = [tpc EXCEPT ![t] = "emplace_back"]
  /\ UNCHANGED <<notCache, lock, arg, result, returned, callsLeft>>

\* _cache.push_back(std::make_unique<PointBuffer>(std::move(points))): a new
\* PointBuffer at an address the allocator picks, its pointer appended.
EmplacePushBack(t) ==
  /\ tpc[t] = "emplace_push"
  /\ \E a \in Addresses \ DOMAIN heap :
       LET pushed == push_back(cache, storage, a)
       IN /\ heap' = [x \in DOMAIN heap \cup {a} |->
                        IF x = a THEN arg[t] ELSE heap[x]]
          /\ cache' = pushed.cache
          /\ storage' = pushed.storage
  /\ tpc' = [tpc EXCEPT ![t] = "emplace_back"]
  /\ UNCHANGED <<notCache, lock, arg, result, returned, callsLeft>>

\* return *_cache.back(): the reference is formed while the mutex is held.
EmplaceBack(t) ==
  /\ tpc[t] = "emplace_back"
  /\ LET a == cache[Len(cache)]
     IN result' = [result EXCEPT ![t] =
                     [addr |-> a, points |-> heap[a], base |-> storage.base, by |-> t]]
  /\ tpc' = [tpc EXCEPT ![t] = "emplace_unlock"]
  /\ UNCHANGED <<notCache, cache, storage, lock, heap, arg, returned, callsLeft>>

\* ~lock_guard of emplace_points(); the caller has the reference from here on
\* and uses it without the mutex.
EmplaceUnlock(t) ==
  /\ tpc[t] = "emplace_unlock"
  /\ lock' = Nobody
  /\ returned' = returned \cup {result[t]}
  /\ result' = [result EXCEPT ![t] = NoRef]
  /\ tpc' = [tpc EXCEPT ![t] = "idle"]
  /\ UNCHANGED <<notCache, cache, storage, heap, arg, callsLeft>>

\* A thread calls clear().
CallClear(t) ==
  /\ tpc[t] = "idle"
  /\ callsLeft > 0
  /\ callsLeft' = callsLeft - 1
  /\ tpc' = [tpc EXCEPT ![t] = "clear_lock"]
  /\ UNCHANGED <<notCache, cache, storage, lock, heap, arg, result, returned>>

\* std::lock_guard guard{ _lock } of clear()
ClearLock(t) ==
  /\ tpc[t] = "clear_lock"
  /\ lock = Nobody
  /\ lock' = t
  /\ tpc' = [tpc EXCEPT ![t] = "clear_cache"]
  /\ UNCHANGED <<notCache, cache, storage, heap, arg, result, returned, callsLeft>>

\* _cache.clear(): every pointer is destroyed and with it the PointBuffer it
\* owns; the array is kept.
ClearCache(t) ==
  /\ tpc[t] = "clear_cache"
  /\ cache' = <<>>
  /\ heap' = [a \in DOMAIN heap \ {cache[i] : i \in DOMAIN cache} |-> heap[a]]
  /\ returned' = {}
  /\ tpc' = [tpc EXCEPT ![t] = "clear_unlock"]
  /\ UNCHANGED <<notCache, storage, lock, arg, result, callsLeft>>

\* ~lock_guard of clear()
ClearUnlock(t) ==
  /\ tpc[t] = "clear_unlock"
  /\ lock' = Nobody
  /\ tpc' = [tpc EXCEPT ![t] = "idle"]
  /\ UNCHANGED <<notCache, cache, storage, heap, arg, result, returned, callsLeft>>

-----------------------------------------------------------------------------
(* TerminalUI *)

\* Largest number of progress counters registered at one time.
MaxCounters == 2

\* One item written to stdout: printable text of n columns, or a control.
Tok(op, n) == [op |-> op, n |-> n]

\* TerminalLabel::render: the color on a TTY, then the content.
\* TerminalProgressBar::render: '[', the glyphs, ']'.
\* TerminalMultilineLabel::render: every chunk of the content ends a line.
Render(element, isTty) ==
  CASE element = "label" ->
         IF isTty THEN <<Tok("SGR", 0), Tok("text", 1)>> ELSE <<Tok("text", 1)>>
    [] element = "bar" -> <<Tok("text", 40)>>
    [] element = "multiline" ->
         IF isTty THEN <<Tok("SGR", 0), Tok("text", 1), Tok("NL", 0)>>
         ELSE <<Tok("text", 1), Tok("NL", 0)>>

RECURSIVE RenderLine(_, _)
RenderLine(line, isTty) ==
  IF line = <<>> THEN <<>>
  ELSE Render(Head(line), isTty) \o RenderLine(Tail(line), isTty)

\* rebuild_progress_ui_with_tty() whose name label is a multi-line label.
rebuild_progress_ui_with_tty_Multiline(n) ==
  [i \in 1 .. n |-> <<"multiline", "bar", "label">>]

\* rebuild_progress_ui_with_tty(): no line without progress counters,
\* otherwise a name label, a progress bar and a detail label per counter.
rebuild_progress_ui_with_tty(n) ==
  [i \in 1 .. n |-> <<"label", "bar", "label">>]

\* rebuild_progress_ui_without_tty(): no line without progress counters,
\* otherwise one line of a time label and one label per counter.
rebuild_progress_ui_without_tty(n) ==
  IF n = 0 THEN <<>> ELSE <<[i \in 1 .. (n + 1) |-> "label"]>>

\* redraw_with_tty(): every line is erased, rendered and ended; then the
\* cursor goes to the first column and up by the number of lines.
RECURSIVE DrawLinesTty(_)
DrawLinesTty(lines) ==
  IF lines = <<>> THEN <<>>
  ELSE <<Tok("EL", 0)>> \o RenderLine(Head(lines), TRUE) \o <<Tok("NL", 0)>>
         \o DrawLinesTty(Tail(lines))

redraw_with_tty(lines) ==
  DrawLinesTty(lines) \o <<Tok("CUB", 1000), Tok("CUU", Len(lines))>>

\* redraw_without_tty(): every line is rendered and ended.
RECURSIVE redraw_without_tty(_)
redraw_without_tty(lines) ==
  IF lines = <<>> THEN <<>>
  ELSE RenderLine(Head(lines), FALSE) \o <<Tok("NL", 0)>>
         \o redraw_without_tty(Tail(lines))

\* What a terminal does with one item: text moves the cursor right, a newline
\* to the start of the next row; ESC [ n D and ESC [ n A move it left and up
\* by n, where n = 0 stands for 1, and stop at the edge.
TerminalStep(cur, tok) ==
  CASE tok.op = "text" -> [cur EXCEPT !.col = @ + tok.n]
    [] tok.op = "NL" -> [row |-> cur.row + 1, col |-> 0]
    [] tok.op = "CUB" -> [cur EXCEPT !.col = Max2(0, @ - Max2(1, tok.n))]
    [] tok.op = "CUU" -> [cur EXCEPT !.row = Max2(0, @ - Max2(1, tok.n))]
    [] OTHER -> cur

RECURSIVE Terminal(_, _)
Terminal(cur, toks) ==
  IF toks = <<>> THEN cur ELSE Terminal(TerminalStep(cur, Head(toks)), Tail(toks))

\* The part of redraw() before the early return: the UI is rebuilt from the
\* progress counters.
Rebuild(isTty, n) ==
  IF isTty THEN rebuild_progress_ui_with_tty(n) ELSE rebuild_progress_ui_without_tty(n)

\* The part of redraw() under the print lock.
Draw(isTty, lines) ==
  IF isTty THEN redraw_with_tty(lines) ELSE redraw_without_tty(lines)

\* Where stdout is a terminal the items move its cursor.
Written(isTty, cur, toks) == IF isTty THEN Terminal(cur, toks) ELSE cur

\* TerminalUI(state): nothing built, nothing written.
TerminalInit ==
  /\ uiElements = <<>>
  /\ lastOut = <<>>
  /\ frame = [rowBefore |-> cursor.row, lines |-> 0, counters |-> 0, drew |-> FALSE]
  /\ mpc = "ui"
  /\ rpc = "none"
  /\ doRender = FALSE
  /\ printLock = "free"
  /\ redrawsSinceClear = 0

\* No terminal UI is in use.
TerminalUnused ==
  /\ tty = FALSE
  /\ counters = 0
  /\ cursor = [row |-> 0, col |-> 0]
  /\ TerminalInit

\* The program registers or removes a progress counter.
SetCounters ==
  /\ mpc \in {"ui", "rendering", "joined"}
  /\ \E n \in 0 .. MaxCounters : n # counters /\ counters' = n
  /\ UNCHANGED <<notTerminal, tty, uiElements, lastOut, cursor, frame, mpc, rpc,
                 doRender, printLock, redrawsSinceClear>>

\* redraw() called by the owner of the UI while no render thread runs.
Redraw ==
  /\ mpc \in {"ui", "joined"}
  /\ LET lines == Rebuild(tty, counters)
         out == IF lines = <<>> THEN <<>> ELSE Draw(tty, lines)
     IN /\ uiElements' = lines
        /\ lastOut' = out
        /\ cursor' = Written(tty, cursor, out)
        /\ frame' = [rowBefore |-> cursor.row, lines |-> Len(lines), counters |-> counters,
                   drew |-> TRUE]
  /\ UNCHANGED <<notTerminal, tty, counters, mpc, rpc, doRender, printLock,
                 redrawsSinceClear>>

\* TerminalUIAsyncRenderer(ui): _do_render = true and the thread starts.
StartRenderer ==
  /\ mpc = "ui"
  /\ doRender' = TRUE
  /\ rpc' = "check"
  /\ mpc' = "rendering"
  /\ UNCHANGED <<notTerminal, tty, counters, uiElements, lastOut, cursor, frame,
                 printLock, redrawsSinceClear>>

\* _do_render as the render thread reads it: an atomic flag, whose test sees
\* the value last stored.
DoRenderSeen == doRender

\* A render thread whose test of the flag never sees the flag cleared.
RenderCheck_Unseen ==
  /\ rpc = "check"
  /\ rpc' = "rebuild"
  /\ UNCHANGED <<notTerminal, tty, counters, uiElements, lastOut, cursor, frame,
                 mpc, doRender, printLock, redrawsSinceClear>>

\* while (_do_render)
RenderCheck ==
  /\ rpc = "check"
  /\ rpc' = IF DoRenderSeen THEN "rebuild" ELSE "exited"
  /\ UNCHANGED <<notTerminal, tty, counters, uiElements, lastOut, cursor, frame,
                 mpc, doRender, printLock, redrawsSinceClear>>

\* _ui.redraw() of the render thread, up to the early return.
RenderRebuild ==
  /\ rpc = "rebuild"
  /\ uiElements' = Rebuild(tty, counters)
  /\ frame' = [rowBefore |-> cursor.row, lines |-> Len(uiElements'),
               counters |-> counters, drew |-> TRUE]
  /\ lastOut' = <<>>
  /\ rpc' = IF uiElements' = <<>> THEN "sleep" ELSE "lock"
  /\ redrawsSinceClear' = IF doRender THEN redrawsSinceClear ELSE redrawsSinceClear + 1
  /\ UNCHANGED <<notTerminal, tty, counters, cursor, mpc, doRender, printLock>>

\* util::print_lock().lock()
RenderLock ==
  /\ rpc = "lock"
  /\ printLock = "free"
  /\ printLock' = "render"
  /\ rpc' = "draw"
  /\ UNCHANGED <<notTerminal, tty, counters, uiElements, lastOut, cursor, frame,
                 mpc, doRender, redrawsSinceClear>>

\* redraw_with_tty() or redraw_without_tty()
RenderDraw ==
  /\ rpc = "draw"
  /\ lastOut' = Draw(tty, uiElements)
  /\ cursor' = Written(tty, cursor, lastOut')
  /\ rpc' = "unlock"
  /\ UNCHANGED <<notTerminal, tty, counters, uiElements, frame, mpc, doRender,
                 printLock, redrawsSinceClear>>

\* util::print_lock().unlock()
RenderUnlock ==
  /\ rpc = "unlock"
  /\ printLock' = "free"
  /\ rpc' = "sleep"
  /\ UNCHANGED <<notTerminal, tty, counters, uiElements, lastOut, cursor, frame,
                 mpc, doRender, redrawsSinceClear>>

\* std::this_thread::sleep_for(50ms)
RenderSleep ==
  /\ rpc = "sleep"
  /\ rpc' = "check"
  /\ UNCHANGED <<notTerminal, tty, counters, uiElements, lastOut, cursor, frame,
                 mpc, doRender, printLock, redrawsSinceClear>>

\* ~TerminalUIAsyncRenderer(): _do_render = false
StopRenderer ==
  /\ mpc = "rendering"
  /\ doRender' = FALSE
  /\ mpc' = "join"
  /\ UNCHANGED <<notTerminal, tty, counters, uiElements, lastOut, cursor, frame,
                 rpc, printLock, redrawsSinceClear>>

\* _render_thread.join() returns when the thread has left its function.
Join ==
  /\ mpc = "join"
  /\ rpc = "exited"
  /\ mpc' = "joined"
  /\ UNCHANGED <<notTerminal, tty, counters, uiElements, lastOut, cursor, frame,
                 rpc, doRender, printLock, redrawsSinceClear>>

\* ~TerminalUI(): on a TTY one newline per line of _ui_elements.
Destroy ==
  /\ mpc \in {"ui", "joined"}
  /\ lastOut' = IF tty THEN [i \in 1 .. Len(uiElements) |-> Tok("NL", 0)] ELSE <<>>
  /\ cursor' = Written(tty, cursor, lastOut')
  /\ mpc' = "destroyed"
  /\ UNCHANGED <<notTerminal, tty, counters, uiElements, frame, rpc, doRender,
                 printLock, redrawsSinceClear>>

-----------------------------------------------------------------------------
(* Initial states *)

\* What every run starts from, whatever its inputs.
InitRun ==
  /\ pc = "start"
  /\ outDir = initialOutDir
  /\ created = {}
  /\ sources = givenSources
  /\ transformation = "none"
  /\ totalPoints = 0
  /\ aabb = EmptyAABB
  /\ writer = NoWriter
  /\ srcIdx = 0
  /\ batchesRead = 0
  /\ pointBatch = 0
  /\ pointsProcessed = 0
  /\ pointsSinceLastProcessing = 0
  /\ mode = ""
  /\ modeLog = <<>>
  /\ processedPoints = 0
  /\ boundingBoxes = <<>>
  /\ numPoints = <<>>
  /\ sourceFilenames = <<>>
  /\ calls = <<>>
  /\ addedSinceProcessStore = 0
  /\ queuedAtProcessStore = 0
  /\ readersCreated = 0

\* Runs over every output directory, store option and projection.
InitOutput ==
  /\ initialOutDir \in OutDirs
  /\ storeOption \in StoreOptions
  /\ sourceProjection \in Projections
  /\ projSetupThrows \in BOOLEAN
  /\ givenSources = <<F_a, F_b>>
  /\ dirOrder = DefaultDirOrder
  /\ fileBatches = DefaultBatches
  /\ maxMemory = 1000000
  /\ aabbValues = <<>>

\* Runs over every list of sources, directory order and user bounds.
InitSources ==
  /\ givenSources \in SeqsUpTo(NamablePaths, MaxSources)
  /\ dirOrder \in DirOrders
  /\ aabbValues \in UserBounds
  /\ initialOutDir = NoDir
  /\ storeOption = "ABORT_IF_EXISTS"
  /\ sourceProjection = None
  /\ projSetupThrows = FALSE
  /\ fileBatches = DefaultBatches
  /\ maxMemory = 2500000

\* Runs over every content of the input files and memory limit.
InitIngest ==
  /\ fileBatches \in [ReadableFiles -> SeqsUpTo(BatchSizes, MaxBatches)]
  /\ fileBatches[D1_p] = <<>>
  /\ fileBatches[D1_q] = <<>>
  /\ maxMemory \in MemoryLimits
  /\ givenSources = <<F_a, F_b>>
  /\ dirOrder = DefaultDirOrder
  /\ aabbValues = <<>>
  /\ initialOutDir = NoDir
  /\ storeOption = "ABORT_IF_EXISTS"
  /\ sourceProjection = None
  /\ projSetupThrows = FALSE

\* No thread uses the cache.
CacheUnused == CacheInit /\ callsLeft = 0

\* convert() is not running.
ConvertUnused ==
  /\ givenSources = <<>>
  /\ dirOrder = DefaultDirOrder
  /\ fileBatches = DefaultBatches
  /\ maxMemory = 1000000
  /\ aabbValues = <<>>
  /\ initialOutDir = NoDir
  /\ storeOption = "ABORT_IF_EXISTS"
  /\ sourceProjection = None
  /\ projSetupThrows = FALSE
  /\ InitRun

Init ==
  (InitOutput \/ InitSources \/ InitIngest) /\ InitRun /\ CacheUnused /\ TerminalUnused

-----------------------------------------------------------------------------
(* convert(), step by step *)

Call(name) == calls' = Append(calls, name)

\* _ui_state.set_current_mode(m)
set_current_mode(m) == mode' = m /\ modeLog' = Append(modeLog, m)

\* prepare(): verifyWorkDir, then the source list is replaced by the files
\* found.  An exception of verifyWorkDir ends convert().
Prepare ==
  /\ pc = "start"
  /\ LET v == verifyWorkDir(outDir, storeOption)
     IN /\ outDir' = v.dir
        /\ IF v.threw
             THEN pc' = "failed" /\ sources' = sources
             ELSE pc' = "count" /\ sources' = SourceFiles(sources, dirOrder)
  /\ UNCHANGED <<notConvert, config, created, transformation, aabb, writer, ingest, ui,
                 calls, ghost>>

\* Index of the first source createPointReader returns NULL for, 0 if none.
FirstNull(srcs) ==
  IF \E i \in DOMAIN srcs : createPointReader(srcs[i]) = "NULL"
    THEN CHOOSE i \in DOMAIN srcs :
           /\ createPointReader(srcs[i]) = "NULL"
           /\ \A j \in 1..(i - 1) : createPointReader(srcs[j]) # "NULL"
    ELSE 0

NumPointsOf(path) == SumSeq(fileBatches[path])

\* _ui_state.set_processed_points(0);
\* _ui_state.set_total_points(get_total_points_count());
\* reader->numPoints() on a NULL reader ends the process.
GetTotalPointsCount ==
  /\ pc = "count"
  /\ processedPoints' = 0
  /\ IF FirstNull(sources) # 0
       THEN /\ pc' = "crashed"
            /\ readersCreated' = readersCreated + FirstNull(sources)
            /\ totalPoints' = totalPoints
       ELSE /\ pc' = "aabb"
            /\ readersCreated' = readersCreated + Len(sources)
            /\ totalPoints' = SumSeq([i \in DOMAIN sources |-> NumPointsOf(sources[i])])
  /\ UNCHANGED <<mode, modeLog>>
  /\ UNCHANGED <<notConvert, config, outDir, created, sources, transformation, aabb, writer,
                 ingest, calls, addedSinceProcessStore, queuedAtProcessStore>>

\* A slip in convert(): makeCubic() is not called.
ComputeAABB_NotCubic ==
  /\ pc = "aabb"
  /\ aabb' = calculateAABB(sources, aabbValues)
  /\ readersCreated' =
       readersCreated + (IF Len(aabbValues) = 6 THEN 0 ELSE Len(sources))
  /\ pc' = "transform"
  /\ UNCHANGED <<notConvert, config, outDir, created, sources, transformation, writer,
                 ingest, ui, calls, addedSinceProcessStore, queuedAtProcessStore>>

\* AABB aabb = calculateAABB(); aabb.makeCubic();
ComputeAABB ==
  /\ pc = "aabb"
  /\ aabb' = makeCubic(calculateAABB(sources, aabbValues))
  /\ readersCreated' =
       readersCreated + (IF Len(aabbValues) = 6 THEN 0 ELSE Len(sources))
  /\ pc' = "transform"
  /\ UNCHANGED <<notConvert, config, outDir, created, sources, transformation, writer,
                 ingest, ui, calls, addedSinceProcessStore, queuedAtProcessStore>>

\* auto transformation = get_transformation_helper(sourceProjection);
GetTransformation ==
  /\ pc = "transform"
  /\ LET r == get_transformation_helper(sourceProjection, projSetupThrows)
     IN IF r.threw
          THEN pc' = "failed" /\ transformation' = transformation
          ELSE pc' = "writer" /\ transformation' = r.transform
  /\ UNCHANGED <<notConvert, config, outDir, created, sources, aabb, writer, ingest, ui,
                 calls, ghost>>

\* PotreeWriter writer{...}; then the loop over the sources starts.
ConstructWriter ==
  /\ pc = "writer"
  /\ writer' = NewWriter(aabb, transformation, maxMemory)
  /\ pc' = IF sources = <<>> THEN "finishing" ELSE "open"
  /\ srcIdx' = IF sources = <<>> THEN 0 ELSE 1
  /\ UNCHANGED <<notConvert, config, outDir, created, sources, transformation, aabb,
                 batchesRead, pointBatch, pointsProcessed,
                 pointsSinceLastProcessing, boundingBoxes, numPoints,
                 sourceFilenames, ui, calls, ghost>>

\* PointReader *reader = createPointReader(source, pointAttributes);
\* boundingBoxes.push_back(reader->getAABB()); ...
OpenSource ==
  /\ pc = "open"
  /\ readersCreated' = readersCreated + 1
  /\ IF createPointReader(sources[srcIdx]) = "NULL"
       THEN /\ pc' = "crashed"
            /\ UNCHANGED <<boundingBoxes, numPoints, sourceFilenames, batchesRead>>
       ELSE /\ pc' = "read"
            /\ boundingBoxes' = Append(boundingBoxes, SourceAABB(sources[srcIdx]))
            /\ numPoints' = Append(numPoints, NumPointsOf(sources[srcIdx]))
            /\ sourceFilenames' = Append(sourceFilenames, filename(sources[srcIdx]))
            /\ batchesRead' = 0
  /\ UNCHANGED <<notConvert, config, outDir, created, sources, transformation, aabb, writer,
                 srcIdx, pointBatch, pointsProcessed, pointsSinceLastProcessing,
                 ui, calls, addedSinceProcessStore, queuedAtProcessStore>>

\* The loop body without _ui_state.set_current_mode("INDEXING").
ReadBatch_NoMode ==
  /\ pc = "read"
  /\ Call("readPointBatch")
  /\ IF batchesRead < Len(fileBatches[sources[srcIdx]])
       THEN LET count == fileBatches[sources[srcIdx]][batchesRead + 1]
            IN /\ pointBatch' = count
               /\ batchesRead' = batchesRead + 1
               /\ pointsProcessed' = pointsProcessed + count
               /\ pointsSinceLastProcessing' = pointsSinceLastProcessing + count
               /\ UNCHANGED <<mode, modeLog>>
               /\ processedPoints' = pointsProcessed + count
               /\ pc' = "add"
               /\ srcIdx' = srcIdx
       ELSE /\ pointBatch' = 0
            /\ UNCHANGED <<batchesRead, pointsProcessed, pointsSinceLastProcessing,
                           mode, modeLog, processedPoints>>
            /\ IF srcIdx < Len(sources)
                 THEN srcIdx' = srcIdx + 1 /\ pc' = "open"
                 ELSE srcIdx' = srcIdx /\ pc' = "finishing"
  /\ UNCHANGED <<notConvert, config, outDir, created, sources, transformation, aabb, writer,
                 boundingBoxes, numPoints, sourceFilenames, totalPoints, ghost>>

\* auto pointBatch = reader->readPointBatch(); if (pointBatch.empty()) break;
\* otherwise the counters and the UI state are updated.  After the last
\* batch the reader is closed and the next source, if any, is opened.
ReadBatch ==
  /\ pc = "read"
  /\ Call("readPointBatch")
  /\ IF batchesRead < Len(fileBatches[sources[srcIdx]])
       THEN LET count == fileBatches[sources[srcIdx]][batchesRead + 1]
            IN /\ pointBatch' = count
               /\ batchesRead' = batchesRead + 1
               /\ pointsProcessed' = pointsProcessed + count
               /\ pointsSinceLastProcessing' = pointsSinceLastProcessing + count
               /\ set_current_mode("INDEXING")
               /\ processedPoints' = pointsProcessed + count
               /\ pc' = "add"
               /\ srcIdx' = srcIdx
       ELSE /\ pointBatch' = 0
            /\ UNCHANGED <<batchesRead, pointsProcessed, pointsSinceLastProcessing,
                           mode, modeLog, processedPoints>>
            /\ IF srcIdx < Len(sources)
                 THEN srcIdx' = srcIdx + 1 /\ pc' = "open"
                 ELSE srcIdx' = srcIdx /\ pc' = "finishing"
  /\ UNCHANGED <<notConvert, config, outDir, created, sources, transformation, aabb, writer,
                 boundingBoxes, numPoints, sourceFilenames, totalPoints, ghost>>

\* writer.add(pointBatch); then the threshold test:
\* if (pointsSinceLastProcessing >= PROCESS_COUNT)
\*   pointsSinceLastProcessing -= PROCESS_COUNT;
Add ==
  /\ pc = "add"
  /\ Call("add")
  /\ writer' = WriterAdd(writer, pointBatch)
  /\ addedSinceProcessStore' = addedSinceProcessStore + pointBatch
  /\ IF pointsSinceLastProcessing >= PROCESS_COUNT
       THEN /\ pointsSinceLastProcessing' = pointsSinceLastProcessing - PROCESS_COUNT
            /\ pc' = "processStore"
       ELSE /\ pointsSinceLastProcessing' = pointsSinceLastProcessing
            /\ pc' = "needs_flush"
  /\ UNCHANGED <<notConvert, config, outDir, created, sources, transformation, aabb,
                 srcIdx, batchesRead, pointBatch, pointsProcessed, boundingBoxes,
                 numPoints, sourceFilenames, ui, queuedAtProcessStore,
                 readersCreated>>

\* A slip in convert(): waitUntilProcessed() is not called.
ProcessStore_NoWait ==
  /\ pc = "processStore"
  /\ Call("processStore")
  /\ writer' = WriterProcessStore(writer)
  /\ queuedAtProcessStore' = addedSinceProcessStore
  /\ addedSinceProcessStore' = 0
  /\ pc' = "needs_flush"
  /\ UNCHANGED <<notConvert, config, outDir, created, sources, transformation, aabb, ingest,
                 ui, readersCreated>>

\* writer.processStore();
ProcessStore ==
  /\ pc = "processStore"
  /\ Call("processStore")
  /\ writer' = WriterProcessStore(writer)
  /\ queuedAtProcessStore' = addedSinceProcessStore
  /\ addedSinceProcessStore' = 0
  /\ pc' = "wait"
  /\ UNCHANGED <<notConvert, config, outDir, created, sources, transformation, aabb, ingest,
                 ui, readersCreated>>

\* writer.waitUntilProcessed();
WaitUntilProcessed ==
  /\ pc = "wait"
  /\ Call("waitUntilProcessed")
  /\ writer' = WriterWaitUntilProcessed(writer)
  /\ pc' = "needs_flush"
  /\ UNCHANGED <<notConvert, config, outDir, created, sources, transformation, aabb, ingest,
                 ui, ghost>>

\* A slip in convert(): the result of needs_flush() is ignored.
CheckFlush_Ignored ==
  /\ pc = "needs_flush"
  /\ Call(IF WriterNeedsFlush(writer) THEN "needs_flush:true" ELSE "needs_flush:false")
  /\ pc' = "read"
  /\ UNCHANGED <<notConvert, config, outDir, created, sources, transformation, aabb, writer,
                 ingest, ui, ghost>>

\* if (writer.needs_flush()) { _ui_state.set_current_mode("FLUSHING"); ...
CheckFlush ==
  /\ pc = "needs_flush"
  /\ IF WriterNeedsFlush(writer)
       THEN Call("needs_flush:true") /\ set_current_mode("FLUSHING") /\ pc' = "flush"
       ELSE Call("needs_flush:false") /\ UNCHANGED <<mode, modeLog>> /\ pc' = "read"
  /\ UNCHANGED <<notConvert, config, outDir, created, sources, transformation, aabb, writer,
                 ingest, processedPoints, totalPoints, ghost>>

\* The files writer.flush() leaves below workDir: the node payloads, when
\* there was anything to write.
FlushedFiles(w) ==
  IF w.store + w.processing + w.resident > 0 THEN {DataDir, NodeFile} ELSE {}

\* ... writer.flush(); } inside the loop
Flush ==
  /\ pc = "flush"
  /\ Call("flush")
  /\ writer' = WriterFlush(writer)
  /\ outDir' = Dir(outDir.entries \cup FlushedFiles(writer))
  /\ created' = created \cup FlushedFiles(writer)
  /\ pc' = "read"
  /\ UNCHANGED <<notConvert, config, sources, transformation, aabb, ingest, ui, ghost>>

\* A slip in convert(): the final flush is left out.
Finish_NoFlush ==
  /\ pc = "finishing"
  /\ set_current_mode("FINISHING")
  /\ pc' = "close"
  /\ UNCHANGED <<notConvert, config, outDir, created, sources, transformation, aabb, writer,
                 ingest, processedPoints, totalPoints, calls, ghost>>

\* _ui_state.set_current_mode("FINISHING");
Finish ==
  /\ pc = "finishing"
  /\ set_current_mode("FINISHING")
  /\ pc' = "final_flush"
  /\ UNCHANGED <<notConvert, config, outDir, created, sources, transformation, aabb, writer,
                 ingest, processedPoints, totalPoints, calls, ghost>>

\* writer.flush(); after the loop
FinalFlush ==
  /\ pc = "final_flush"
  /\ Call("flush")
  /\ writer' = WriterFlush(writer)
  /\ outDir' = Dir(outDir.entries \cup FlushedFiles(writer))
  /\ created' = created \cup FlushedFiles(writer)
  /\ pc' = "close"
  /\ UNCHANGED <<notConvert, config, sources, transformation, aabb, ingest, ui, ghost>>

\* writer.close(); ... _ui_state.set_current_mode("DONE");
Close ==
  /\ pc \in {"close"}
  /\ Call("close")
  /\ writer' = WriterClose(writer)
  /\ outDir' = Dir(outDir.entries \cup {RootFile})
  /\ created' = created \cup {RootFile}
  /\ set_current_mode("DONE")
  /\ pc' = "done"
  /\ UNCHANGED <<notConvert, config, sources, transformation, aabb, ingest, processedPoints,
                 totalPoints, ghost>>

Next ==
  \/ Prepare
  \/ GetTotalPointsCount
  \/ ComputeAABB
  \/ GetTransformation
  \/ ConstructWriter
  \/ OpenSource
  \/ ReadBatch
  \/ Add
  \/ ProcessStore
  \/ WaitUntilProcessed
  \/ CheckFlush
  \/ Flush
  \/ Finish
  \/ FinalFlush
  \/ Close

Spec == Init /\ [][Next]_vars

\* Threads calling emplace_points() and clear() on one PointsCache, in any
\* interleaving.
InitCache == CacheInit /\ callsLeft = MaxCalls /\ ConvertUnused /\ TerminalUnused

NextCache ==
  \E t \in Threads :
    \/ CallEmplace(t)
    \/ EmplaceLock(t)
    \/ EmplacePushBack(t)
    \/ EmplaceBack(t)
    \/ EmplaceUnlock(t)
    \/ CallClear(t)
    \/ ClearLock(t)
    \/ ClearCache(t)
    \/ ClearUnlock(t)

SpecCache == InitCache /\ [][NextCache]_vars

\* A terminal UI from its construction to its destruction, drawn by its owner
\* and, while a TerminalUIAsyncRenderer exists, by the render thread.
InitUI ==
  /\ tty \in BOOLEAN
  /\ counters \in 0 .. MaxCounters
  /\ cursor \in {[row |-> r, col |-> c] : r \in {0, 3}, c \in {0, 5}}
  /\ TerminalInit
  /\ ConvertUnused
  /\ CacheUnused

RenderThread ==
  \/ RenderCheck
  \/ RenderRebuild
  \/ RenderLock
  \/ RenderDraw
  \/ RenderUnlock
  \/ RenderSleep

NextUI ==
  \/ SetCounters
  \/ Redraw
  \/ StartRenderer
  \/ RenderThread
  \/ StopRenderer
  \/ Join
  \/ Destroy

SpecUI == InitUI /\ [][NextUI]_vars

\* The same where the render thread, once started, keeps running and a
\* join() whose thread has ended returns.
SpecRender == SpecUI /\ WF_vars(RenderThread) /\ WF_vars(Join)

-----------------------------------------------------------------------------
(* Properties *)

Range(seq) == {seq[i] : i \in DOMAIN seq}

Count(seq, x) == Cardinality({i \in DOMAIN seq : seq[i] = x})

\* The run found r.json directly inside an existing output directory.
RootFilePresent == initialOutDir.exists /\ RootFile \in initialOutDir.entries

\* C1: when the output directory exists, holds r.json and store_option is
\* ABORT_IF_EXISTS, convert() fails in verifyWorkDir before any work: the
\* directory is as it was, no reader has been created, no call has been made
\* on a reader or a writer, and no writer has been constructed.
C1_AbortBeforeAnyWork ==
  (RootFilePresent /\ storeOption = "ABORT_IF_EXISTS" /\ pc # "start") =>
    /\ pc = "failed"
    /\ outDir = initialOutDir
    /\ created = {}
    /\ readersCreated = 0
    /\ calls = <<>>
    /\ ~writer.constructed
    /\ transformation = "none"

C1_Witness ==
  /\ RootFilePresent
  /\ NodeFile \in initialOutDir.entries
  /\ storeOption = "ABORT_IF_EXISTS"
  /\ pc = "failed"

\* C2: every processStore() happens only when at least PROCESS_COUNT points
\* have been passed to writer.add() since the previous processStore() (or since
\* the start of the run).
C2_ProcessStoreOnlyAtThreshold ==
  pc = "wait" => queuedAtProcessStore >= PROCESS_COUNT

\* C3: between processStore() and the return of waitUntilProcessed() nothing
\* is read and nothing is added: every processStore() in the call sequence
\* is directly followed by waitUntilProcessed(), which is what convert() is
\* about to call while it is the last call made.
C3_Backpressure ==
  \A i \in DOMAIN calls :
    calls[i] = "processStore" =>
      IF i < Len(calls) THEN calls[i + 1] = "waitUntilProcessed" ELSE pc = "wait"

C3_Witness ==
  \E i, j \in DOMAIN calls :
    i < j /\ calls[i] = "processStore" /\ calls[j] = "add"

\* C4: whenever needs_flush() is observed true, flush() is the next call, and
\* no batch is read or added between that observation and a flush().
C4_FlushBeforeNextBatch ==
  /\ \A i \in DOMAIN calls :
       calls[i] = "needs_flush:true" =>
         IF i < Len(calls) THEN calls[i + 1] = "flush" ELSE pc = "flush"
  /\ \A i, j \in DOMAIN calls :
       (i < j /\ calls[i] = "needs_flush:true" /\ calls[j] \in {"add", "readPointBatch"})
         => \E k \in (i + 1)..(j - 1) : calls[k] = "flush"

C4_Witness ==
  \E i, j \in DOMAIN calls :
    /\ i + 1 < j
    /\ calls[i] = "needs_flush:true"
    /\ calls[i + 1] = "flush"
    /\ calls[j] = "add"

\* Batches held by the sources of the run.
BatchesToRead == SumSeq([i \in DOMAIN sources |-> Len(fileBatches[sources[i]])])

\* C5: a run that reads all sources to the end ends with one final flush()
\* followed by exactly one close(): the writer is closed only at the end of
\* the run, close() is preceded directly by flush(), and every batch of
\* every source has been added before that flush.
C5_FinalFlushThenClose ==
  /\ Count(calls, "close") > 0 => pc = "done"
  /\ pc = "close" => (calls # <<>> /\ calls[Len(calls)] = "flush")
  /\ pc = "done" =>
       /\ Len(calls) >= 2
       /\ calls[Len(calls)] = "close"
       /\ calls[Len(calls) - 1] = "flush"
       /\ Count(calls, "close") = 1
       /\ Count(calls, "add") = BatchesToRead
       /\ \A i \in DOMAIN calls :
            calls[i] \in {"add", "processStore", "readPointBatch"} => i < Len(calls) - 1

C5_Witness ==
  /\ pc = "done"
  /\ Count(calls, "add") = 1
  /\ Count(calls, "processStore") = 0
  /\ Count(calls, "flush") = 1
  /\ pointsProcessed < PROCESS_COUNT

\* C6: with OVERWRITE and an existing output directory, every path found
\* in the directory is removed before anything is written: from prepare() on
\* the directory holds exactly what this run has written.
C6_OverwriteRemovesAll ==
  (storeOption = "OVERWRITE" /\ initialOutDir.exists /\ pc # "start") =>
    /\ outDir.exists
    /\ outDir.entries = created

C6_Witness ==
  /\ storeOption = "OVERWRITE"
  /\ initialOutDir = Dir(OutPaths)
  /\ pc = "done"
  /\ outDir.entries = {RootFile, DataDir, NodeFile}

\* What prepare() is to leave for one named source.
Segment(source) ==
  IF is_directory(source) THEN ExpandDirectory(dirOrder[source])
  ELSE IF is_regular_file(source) THEN <<source>>
  ELSE <<>>

ExpectedSources == Concat([i \in DOMAIN givenSources |-> Segment(givenSources[i])])

\* C7: a named source that does not exist is skipped by prepare() without an
\* error; after prepare() the source list is the existing input files in
\* their original order, each directory replaced in place by its expanded
\* files, and a run that completes has read every one of them, in order.
C7_MissingSourceSkipped ==
  /\ pc = "failed" => (RootFilePresent /\ storeOption = "ABORT_IF_EXISTS")
  /\ pc \notin {"start", "failed"} =>
       /\ sources = ExpectedSources
       /\ \A i \in DOMAIN sources : is_regular_file(sources[i])
       /\ \A i \in DOMAIN givenSources :
            is_regular_file(givenSources[i]) => givenSources[i] \in Range(sources)
  /\ pc = "done" =>
       /\ sourceFilenames = [i \in DOMAIN sources |-> filename(sources[i])]
       /\ numPoints = [i \in DOMAIN sources |-> NumPointsOf(sources[i])]

C7_Witness ==
  /\ givenSources = <<F_gone, F_a>>
  /\ pc = "done"
  /\ sources = <<F_a>>
  /\ pointsProcessed = NumPointsOf(F_a)

\* C8: a directory given as a source is expanded to exactly the regular
\* files directly inside it for which createPointReader yields a reader.
C8_DirectoryExpansionExact ==
  pc \notin {"start", "failed"} =>
    \A i \in DOMAIN givenSources :
      is_directory(givenSources[i]) =>
        \A e \in DirEntries(givenSources[i]) :
          e \in Range(sources) <=>
            (is_regular_file(e) /\ createPointReader(e) # "NULL")

BeforeTransformation == {"start", "count", "aabb", "transform", "failed", "crashed"}

\* C9: get_transformation_helper always returns a transform and raises no
\* error: the identity when the projection is absent, equals the WGS84
\* string or fails to set up, a projection transform only otherwise; the
\* run goes on to construct the writer with it.
C9_TransformationHelper ==
  /\ pc = "failed" => (RootFilePresent /\ storeOption = "ABORT_IF_EXISTS")
  /\ pc \notin BeforeTransformation =>
       /\ transformation \in {"IdentityTransform", "Proj4Transform"}
       /\ transformation = "Proj4Transform" <=>
            (sourceProjection.has /\ sourceProjection.val # WGS84 /\ ~projSetupThrows)
  /\ writer.constructed => writer.transformation = transformation

C9_Witness ==
  /\ sourceProjection.has
  /\ sourceProjection.val # WGS84
  /\ projSetupThrows
  /\ transformation = "IdentityTransform"
  /\ pc = "done"

IsCubic(box) == Extent(box, 1) = Extent(box, 2) /\ Extent(box, 2) = Extent(box, 3)

Contains(outer, inner) ==
  \A i \in 1..3 : outer.min[i] <= inner.min[i] /\ inner.max[i] <= outer.max[i]

\* The largest extent of the union of the sources' boxes, in the
\* coordinates the readers report.
RawExtent(i) ==
  LET lo == CHOOSE x \in {SourceAABB(f).min[i] : f \in Range(sources)} :
              \A g \in Range(sources) : x <= SourceAABB(g).min[i]
      hi == CHOOSE x \in {SourceAABB(f).max[i] : f \in Range(sources)} :
              \A g \in Range(sources) : x >= SourceAABB(g).max[i]
  IN hi - lo

\* C10: the root box handed to the writer is cubic; without user bounds it
\* contains the box of every source and its edge is the largest extent of
\* the sources in untransformed coordinates; no transform exists while the
\* box is computed.
C10_RootBoxCubic ==
  /\ pc \in {"start", "count", "aabb"} => transformation = "none"
  /\ writer.constructed =>
       /\ writer.aabb = aabb
       /\ IsCubic(writer.aabb)
       /\ Len(aabbValues) # 6 =>
            /\ \A i \in DOMAIN sources : Contains(writer.aabb, SourceAABB(sources[i]))
            /\ sources # <<>> =>
                 Extent(writer.aabb, 1) = Max2(RawExtent(1), Max2(RawExtent(2), RawExtent(3)))

C10_Witness ==
  /\ writer.constructed
  /\ writer.transformation = "Proj4Transform"
  /\ sources = <<F_a, F_b>>
  /\ aabbValues = <<>>
  /\ pc = "done"

\* The threads inside emplace_points() or clear() between taking and releasing
\* the mutex, where _cache is read and written.
InCritical(t) ==
  tpc[t] \in {"emplace_push", "emplace_back", "emplace_unlock",
              "clear_cache", "clear_unlock"}

\* The threads whose emplace_points() has appended its buffer and not returned.
Appended == {t \in Threads : tpc[t] \in {"emplace_back", "emplace_unlock"}}

\* C11: under every interleaving of emplace_points() and clear() from several
\* threads, a thread reads or writes _cache only while it holds the mutex, so
\* no two accesses overlap; no buffer is lost or duplicated: the cache owns
\* exactly one buffer per emplace_points() since the last clear(), each with
\* the points that call passed, and owns none when clear() is done.
C11_CacheThreadSafe ==
  /\ \A t \in Threads : InCritical(t) => lock = t
  /\ \A t, u \in Threads : InCritical(t) /\ InCritical(u) => t = u
  /\ \A i, j \in DOMAIN cache : cache[i] = cache[j] => i = j
  /\ DOMAIN heap = Range(cache)
  /\ Len(cache) = Cardinality(returned) + Cardinality(Appended)
  /\ {heap[a] : a \in DOMAIN heap} =
       {r.points : r \in returned} \cup {arg[t] : t \in Appended}
  /\ \A t \in Threads :
       tpc[t] = "clear_unlock" => cache = <<>> /\ DOMAIN heap = {}

\* A clear() has emptied a cache that held at least two buffers, while another
\* thread's emplace_points() waits for the mutex.
C11_Witness ==
  \E t, u \in Threads :
    /\ tpc[t] = "clear_unlock"
    /\ tpc[u] = "emplace_lock"
    /\ storage.capacity >= 2
    /\ cache = <<>>

\* Every reference handed out since the last clear() designates a live buffer
\* that holds the points it was created with.
RefsLive ==
  /\ \A r \in returned : r.addr \in DOMAIN heap /\ heap[r.addr] = r.points
  /\ \A t \in Threads :
       result[t] # NoRef =>
         result[t].addr \in DOMAIN heap /\ heap[result[t].addr] = result[t].points

\* A step that ends the lifetime of a buffer is the _cache.clear() of clear(),
\* and it ends the lifetime of every buffer; no step moves a buffer or changes
\* the points of one.
OnlyClearDestroys ==
  /\ \A a \in DOMAIN heap \cap DOMAIN heap' : heap'[a] = heap[a]
  /\ (DOMAIN heap \ DOMAIN heap' # {}) =>
       /\ \E t \in Threads : tpc[t] = "clear_cache" /\ tpc'[t] = "clear_unlock"
       /\ DOMAIN heap' = {}

\* C17: a reference returned by emplace_points() designates the same live
\* buffer for as long as clear() has not been called, whatever other threads
\* emplace meanwhile (growth of _cache neither moves nor destroys a stored
\* buffer); only clear() ends the lifetime of stored buffers, all at once.
C17_ReferencesStable == []RefsLive /\ [][OnlyClearDestroys]_vars

\* A reference is still held after another thread's emplace_points() made the
\* vector replace its array.
C17_Witness ==
  \E r, q \in returned : q.by # r.by /\ q.base > r.base /\ r.addr \in DOMAIN heap

\* path + "/sources.json"
SourcesFile == <<"sources.json">>

\* bb.update(boundingBox) over the boxes in order, from the empty box.
RECURSIVE UpdateAll(_, _)
UpdateAll(box, boxes) ==
  IF boxes = <<>> THEN box
  ELSE UpdateAll(AABBUpdate(AABBUpdate(box, Head(boxes).min), Head(boxes).max),
                 Tail(boxes))

\* The document writeSources() builds: one entry per index of sourceFilenames
\* and the union of the boxes.
writeSources(names, points, boxes) ==
  [bounds |-> UpdateAll(EmptyAABB, boxes),
   sources |-> [i \in DOMAIN names |->
                  [name |-> names[i], points |-> points[i], bounds |-> boxes[i]]]]

\* C12: every run of convert() that completes has written sources.json into
\* the output directory, with one entry (name, point count, bounds) per
\* ingested source in the order the sources were read and the union of the
\* per-source bounds as top-level bounds.
C12_SourcesJsonWritten ==
  pc = "done" =>
    /\ SourcesFile \in outDir.entries
    /\ writeSources(sourceFilenames, numPoints, boundingBoxes) =
         [bounds |-> UpdateAll(EmptyAABB, [i \in DOMAIN sources |-> SourceAABB(sources[i])]),
          sources |-> [i \in DOMAIN sources |->
                         [name |-> filename(sources[i]),
                          points |-> NumPointsOf(sources[i]),
                          bounds |-> SourceAABB(sources[i])]]]

\* The modes set so far are in the order of a run: once FINISHING is set only
\* DONE follows, and nothing follows DONE.
ModesInOrder ==
  \A i, j \in DOMAIN modeLog :
    i < j => /\ modeLog[i] # "DONE"
             /\ modeLog[i] = "FINISHING" => modeLog[j] = "DONE"

\* The phases of convert() as the UI state reports them.
C13_Phases ==
  /\ pc = "add" => mode = "INDEXING"
  /\ pc = "flush" => mode = "FLUSHING"
  /\ pc \in {"final_flush", "close"} =>
       /\ mode = "FINISHING"
       /\ Count(modeLog, "FINISHING") = 1
       /\ Count(calls, "add") = BatchesToRead
  /\ pc = "final_flush" => Count(calls, "flush") = Count(modeLog, "FLUSHING")
  /\ pc \notin {"final_flush", "close", "done"} => Count(modeLog, "FINISHING") = 0
  /\ mode = "DONE" <=> pc = "done"
  /\ pc = "done" =>
       /\ calls[Len(calls)] = "close"
       /\ Count(modeLog, "FINISHING") = 1
       /\ Count(modeLog, "DONE") = 1
       /\ processedPoints = SumSeq([i \in DOMAIN sources |-> NumPointsOf(sources[i])])
       /\ processedPoints = pointsProcessed
  /\ pc # "done" => Count(modeLog, "DONE") = 0
  /\ ModesInOrder

\* C13: the reported mode is INDEXING at every writer.add() and FLUSHING
\* during every memory-triggered flush; FINISHING is set once, after the last
\* batch of the last source and before the final flush; DONE is set once,
\* after writer.close(), and is the last mode; once FINISHING is set the mode
\* never returns to INDEXING or FLUSHING; the reported processed-point count
\* never decreases and at DONE equals the sum of all batch sizes read.
C13_PhaseOrder == []C13_Phases /\ [][processedPoints' >= processedPoints]_vars

\* A completed run that flushed on memory pressure and went on indexing.
C13_Witness ==
  /\ pc = "done"
  /\ \E i, j \in DOMAIN modeLog :
       i < j /\ modeLog[i] = "FLUSHING" /\ modeLog[j] = "INDEXING"
  /\ processedPoints > PROCESS_COUNT

\* The cases in which verifyWorkDir is to remove what it finds.
Removes ==
  /\ initialOutDir.exists
  /\ storeOption # "INCREMENTAL"
  /\ ~(storeOption = "ABORT_IF_EXISTS" /\ RootFilePresent)

\* C15: verifyWorkDir removes the entries it finds in an existing output
\* directory exactly when store_option is not INCREMENTAL and not
\* (ABORT_IF_EXISTS with r.json directly inside), and then removes all of
\* them; under INCREMENTAL nothing is removed or changed and no error is
\* raised, r.json or not; under ABORT_IF_EXISTS a directory without r.json
\* directly inside is emptied; a directory that does not exist is created
\* and nothing is removed.
C15_VerifyWorkDirFrame ==
  /\ pc \in {"count", "failed"} =>
       /\ Removes => pc = "count" /\ outDir = Dir({})
       /\ (initialOutDir.exists /\ ~Removes) => outDir = initialOutDir
       /\ ~initialOutDir.exists => pc = "count" /\ outDir = Dir({})
       /\ pc = "failed" <=> (storeOption = "ABORT_IF_EXISTS" /\ RootFilePresent)
  /\ (storeOption = "INCREMENTAL" /\ initialOutDir.exists) =>
       /\ pc # "failed"
       /\ initialOutDir.entries \subseteq outDir.entries

\* Under ABORT_IF_EXISTS a directory whose only r.json lies in a subdirectory
\* has been emptied.
C15_Witness ==
  /\ storeOption = "ABORT_IF_EXISTS"
  /\ initialOutDir = Dir({OldDir, OldRootFile})
  /\ pc = "count"
  /\ outDir = Dir({})

\* C16: for every path left in sources by prepare(), createPointReader
\* returns a reader, so that get_total_points_count, calculateAABB and the
\* ingest loop never use a null reader.
C16_ReadersNeverNull ==
  /\ pc \notin {"start", "failed"} =>
       \A i \in DOMAIN sources : createPointReader(sources[i]) # "NULL"
  /\ pc # "crashed"

\* The items of a kind among what was written.
Items(toks, op) == {i \in DOMAIN toks : toks[i].op = op}

\* A redraw() has returned and the UI has not been destroyed since.
RedrawDone == frame.drew /\ rpc \notin {"lock", "draw"} /\ mpc # "destroyed"

\* C14: on a TTY a redraw() draws one line per progress counter, each on one
\* output line, and ends by moving the cursor up by exactly that number of
\* lines, so that the cursor row after redraw() is the row before it; a
\* redraw() without progress counters writes nothing; ~TerminalUI() writes
\* exactly as many newlines as the last frame had lines, which leaves the
\* cursor below the draw buffer.
C14_CursorRestored ==
  /\ (tty /\ RedrawDone) =>
       /\ frame.lines = frame.counters
       /\ Len(uiElements) = frame.lines
       /\ Cardinality(Items(lastOut, "NL")) = frame.lines
       /\ frame.lines > 0 =>
            /\ lastOut[Len(lastOut)] = Tok("CUU", frame.lines)
            /\ Cardinality(Items(lastOut, "CUU")) = 1
       /\ frame.lines = 0 => lastOut = <<>>
       /\ cursor.row = frame.rowBefore
  /\ (tty /\ mpc = "destroyed") =>
       /\ lastOut = [i \in 1 .. frame.lines |-> Tok("NL", 0)]
       /\ cursor.row = frame.rowBefore + frame.lines

\* A UI drawn by the render thread, whose last frame had two lines, has been
\* destroyed after a progress counter was removed.
C14_Witness ==
  /\ tty
  /\ mpc = "destroyed"
  /\ rpc = "exited"
  /\ frame.lines = 2
  /\ counters # 2
  /\ cursor.row = frame.rowBefore + 2

\* What holds of the render thread in every state.
RenderThreadBounded ==
  /\ redrawsSinceClear <= 1
  /\ (rpc # "none" /\ mpc \in {"joined", "destroyed"}) => rpc = "exited"
  /\ mpc \in {"ui", "rendering"} => redrawsSinceClear = 0

\* A render thread that has left its function takes no further step.
ExitedStays ==
  rpc = "exited" =>
    /\ rpc' = "exited"
    /\ redrawsSinceClear' = redrawsSinceClear
    /\ mpc = "join" => UNCHANGED <<uiElements, lastOut, cursor, frame>>

\* C18: between the construction and the destruction of the renderer the
\* render thread calls redraw() again and again; once the destructor has
\* cleared the flag the thread finishes at most the iteration in progress and
\* exits, so that join() returns, and the render thread calls redraw() no
\* more after the destructor has returned.
C18_RenderThreadStops ==
  /\ []RenderThreadBounded
  /\ [][ExitedStays]_vars
  /\ (mpc = "join") ~> (mpc = "joined")
  /\ (mpc = "rendering" /\ rpc = "sleep") ~> (rpc = "rebuild" \/ mpc # "rendering")

\* The destructor has returned after the render thread finished the redraw()
\* it had begun when the flag was cleared.
C18_Witness ==
  /\ mpc = "joined"
  /\ rpc = "exited"
  /\ redrawsSinceClear = 1
  /\ lastOut # <<>>

=============================================================================
